---- MODULE Spec2Model ----
(***************************************************************************)
(* A model of workflows-go (src/main.go): BaseEvent, BaseContext and the   *)
(* BaseWorkflow engine (Validate, TakeStep, Run, Output).                  *)
(*                                                                         *)
(* Go strings that the engine builds or returns are modelled as sequences  *)
(* of string pieces, so that the message fmt.Sprintf builds around a step  *)
(* name is a value that contains the name.  Pointers that may be nil are    *)
(* modelled as records, nil being a record of its own.                      *)
(***************************************************************************)
EXTENDS Integers, Sequences, FiniteSets, TLC

\* ------------------------------------------------------------------ bounds

\* A Run is followed for at most MaxSteps calls of TakeStep.
MaxSteps == 3

\* A context is followed for at most MaxOps calls of StoreValue and SetState.
MaxOps == 3

\* ------------------------------------------------------------ value domains

\* Step names used as keys of BaseWorkflow.Steps, as FirstStep and as NextStep.
Names == {"s1", "s2", "end"}

\* A Go string literal.
Str(s) == <<s>>

\* map[string]string{}
EmptyData == [k \in {} |-> Str("")]

\* The payload maps a step returns.
Datas == {EmptyData, [output |-> Str("hello world")]}

\* A nil *BaseEvent.
NilEvent == [isNil |-> TRUE]

\* NewBaseEvent(followingStep, data)
NewBaseEvent(followingStep, data) == [NextStep |-> followingStep, Data |-> data]

\* The events a step function returns (nil apart): terminal events with any
\* payload, and events for a further step, which carry an "output" too.
Events ==
    {NewBaseEvent("end", d) : d \in Datas}
        \cup {NewBaseEvent(n, [output |-> Str("hello world")]) : n \in Names \ {"end"}}

\* The input events handed to Run and TakeStep.
InputEvents ==
    { NewBaseEvent("mockEvent", [mock |-> Str("event")]),
      NewBaseEvent("end", [output |-> Str("input")]) }

\* (ev *BaseEvent) Get(key)
Get(ev, key) ==
    IF key \in DOMAIN ev.Data
    THEN [val |-> ev.Data[key], success |-> TRUE]
    ELSE [val |-> Str(""), success |-> FALSE]

\* ---------------------------------------------------------------- contexts

\* The BaseContext objects of the heap: the workflow's own default context
\* and the contexts callers pass to Run and TakeStep.
CtxIds == {"wfctx", "runctx"}

\* The heap is [ctx |-> the BaseContext objects, by identity,
\*              map |-> the map[string]any objects, by identity].
\* Go maps are references: a map object is named by its index in heap.map,
\* and the fields Store and State of a BaseContext hold such references.

\* map[string]any{}
EmptyMap == [k \in {} |-> 0]

\* A map literal: a new map object with the given content.
NewMap(h, content) == [h EXCEPT !.map = Append(@, content)]

\* NewBaseContext(store, state)
NewBaseContext(store, state) == [Store |-> store, State |-> state]

\* StoreValue, were it to keep the value of a key that is present.
StoreValue_KeepOld(h, ctx, key, val) ==
    [h EXCEPT !.map[h.ctx[ctx].Store] = @ @@ (key :> val)]

\* (ctx *BaseContext) StoreValue(key, val): ctx.Store[key] = val
StoreValue(h, ctx, key, val) ==
    [h EXCEPT !.map[h.ctx[ctx].Store] = (key :> val) @@ @]

\* (ctx *BaseContext) GetValue(key)
GetValue(h, ctx, key) ==
    LET store == h.map[h.ctx[ctx].Store]
    IN  IF key \in DOMAIN store
        THEN [val |-> store[key], success |-> TRUE]
        ELSE [val |-> 0, success |-> FALSE]

\* (ctx *BaseContext) GetState()
GetState(h, ctx) == h.ctx[ctx].State

\* SetState, were it to merge the given map over the current state.
SetState_Merge(h, ctx, state) ==
    LET h1 == NewMap(h, h.map[state] @@ h.map[GetState(h, ctx)])
    IN  [h1 EXCEPT !.ctx[ctx].State = Len(h1.map)]

\* (ctx *BaseContext) SetState(state)
SetState(h, ctx, state) == [h EXCEPT !.ctx[ctx].State = state]

\* What a step function does to the context it is given before it returns:
\* nothing, or it adds val to a counter it keeps in the store, or it sets a
\* new state, a fresh map that counts on from the state it found.
CtxOps ==
    { [kind |-> "none"],
      [kind |-> "StoreValue", key |-> "k", val |-> 1],
      [kind |-> "SetState", state |-> [n |-> 1]] }

\* The content of map m counted on by delta.
Bump(m, delta) ==
    [x \in DOMAIN delta |-> (IF x \in DOMAIN m THEN m[x] ELSE 0) + delta[x]]

\* The call a step function makes on the context c for op: the value it
\* stores, or the state it sets, from what it reads in c.
StepOp(h, c, op) ==
    CASE op.kind = "none" -> op
      [] op.kind = "StoreValue" -> [op EXCEPT !.val = GetValue(h, c, op.key).val + op.val]
      [] op.kind = "SetState" -> [op EXCEPT !.state = Bump(h.map[GetState(h, c)], op.state)]

\* The heap after a step function made the call op on the context c.
ApplyOp(h, c, op) ==
    CASE op.kind = "none" -> h
      [] op.kind = "StoreValue" -> StoreValue(h, c, op.key, op.val)
      [] op.kind = "SetState" ->
            LET h1 == NewMap(h, op.state) IN SetState(h1, c, Len(h1.map))

\* A step function returning the event it was given.
SameEvent == [same |-> TRUE]

\* One execution of a step function: the event it returns (a new one, nil, or
\* the one it was given) and what it does to its context.  A step function is
\* arbitrary Go code, so every call picks any of these.
StepResults == [ret : Events \cup {NilEvent, SameEvent}, op : CtxOps]

\* A step function that counts its calls in the store of its context and
\* sends the run on to "s2" or to "end".
CountingResults ==
    {r \in StepResults :
        /\ r.op.kind = "StoreValue"
        /\ r.ret \in {NewBaseEvent(n, [output |-> Str("hello world")]) : n \in {"s2", "end"}}}

\* What a call of the step function fn may do.
StepResultsOf(fn) == IF fn = "count" THEN CountingResults ELSE StepResults

\* ---------------------------------------------------------------- workflow

\* The step function registered under each name, when the name is registered;
\* two names share one function.
FullTable == [n \in Names |-> IF n = "s2" THEN "f2" ELSE "f1"]

\* The step tables: FullTable restricted to any set of names.
StepTables == { [n \in D |-> FullTable[n]] : D \in SUBSET Names }

\* NewBaseWorkflow(firstStep, ctx, steps)
NewBaseWorkflow(firstStep, ctx, steps) ==
    [FirstStep |-> firstStep, Context |-> ctx, Steps |-> steps]

\* What a dispatch of stepName on w may do: what the step function registered
\* under the name may do (TakeStep ignores it when there is none).
StepResultsFor(w, stepName) ==
    IF stepName \in DOMAIN w.Steps THEN StepResultsOf(w.Steps[stepName]) ELSE StepResults

VARIABLES
    wf,      \* the BaseWorkflow
    heap,    \* the BaseContext objects, by identity
    pc,      \* the position of Run
    args,    \* the arguments of the Run in progress
    event,   \* Run's local variable event
    trace,   \* what Run has called so far: steps and callbacks, in order
    call     \* the last direct call of Validate, TakeStep or Output

vars == <<wf, heap, pc, args, event, trace, call>>

\* ------------------------------------------------------------------ engine

\* A nil error.
NilError == [isNil |-> TRUE]

\* errors.New(msg)
ErrorsNew(msg) == [msg |-> msg]

\* The loop of Validate over the keys of wf.Steps not visited yet.
RECURSIVE ValidateLoop(_)
ValidateLoop(keys) ==
    IF keys = {}
    THEN [ok |-> TRUE, err |-> NilError]
    ELSE LET k == CHOOSE x \in keys : TRUE
         IN  IF k = "end"
             THEN [ok |-> FALSE,
                   err |-> ErrorsNew(Str("end is a reserved keyword, you cannot use it as a name for your steps"))]
             ELSE ValidateLoop(keys \ {k})

\* Validate, were it to reject a reserved FirstStep as well.
Validate_FirstStep(w) ==
    IF w.FirstStep = "end"
    THEN [ok |-> FALSE, err |-> ErrorsNew(Str("end is a reserved keyword"))]
    ELSE ValidateLoop(DOMAIN w.Steps)

\* (wf *BaseWorkflow) Validate()
Validate(w) == ValidateLoop(DOMAIN w.Steps)

\* fmt.Sprintf("There was an error while executing step %s: the step does not exist", stepName)
Sprintf(stepName) ==
    <<"There was an error while executing step ", stepName, ": the step does not exist">>

\* The branch of TakeStep for a name that is not in the table: the new event,
\* whose NextStep is next, the heap and the record of the call.
MissingStep(stepName, next, ev, ctx, h) ==
    LET data == [output |-> Sprintf(stepName)]
        new == NewBaseEvent(next, data)
    IN  [event |-> new, heap |-> h,
         log |-> [kind |-> "TakeStep", name |-> stepName, found |-> FALSE,
                  fn |-> "", ev |-> ev, ctx |-> ctx, ret |-> new]]

\* step(ev, ctx): the step function fn runs and does r.  The record of the
\* call holds what the step read in its context (GetValue("k"), GetState())
\* as it began and the call it made on it.
StepCall(stepName, fn, ev, ctx, h, r) ==
    LET ret == IF r.ret = SameEvent THEN ev ELSE r.ret
        op == StepOp(h, ctx, r.op)
    IN  [event |-> ret, heap |-> ApplyOp(h, ctx, op),
         log |-> [kind |-> "TakeStep", name |-> stepName, found |-> TRUE,
                  fn |-> fn, ev |-> ev, ctx |-> ctx, ret |-> ret, op |-> op,
                  seen |-> [value |-> GetValue(h, ctx, "k"),
                            state |-> h.map[GetState(h, ctx)]]]]

\* TakeStep, were a missing step to send the run back to FirstStep instead of
\* to "end".
TakeStep_Restart(w, stepName, ev, ctx, h, r) ==
    IF stepName \notin DOMAIN w.Steps
    THEN MissingStep(stepName, w.FirstStep, ev, ctx, h)
    ELSE StepCall(stepName, w.Steps[stepName], ev, ctx, h, r)

\* TakeStep, were it to look FirstStep up instead of stepName.
TakeStep_FirstStep(w, stepName, ev, ctx, h, r) ==
    IF w.FirstStep \notin DOMAIN w.Steps
    THEN MissingStep(stepName, "end", ev, ctx, h)
    ELSE StepCall(stepName, w.Steps[w.FirstStep], ev, ctx, h, r)

\* (wf *BaseWorkflow) TakeStep(stepName, ev, ctx), on the heap h, r being what
\* the step function does if it is called.  Returns the event, the heap
\* afterwards and the record of the call.
TakeStep(w, stepName, ev, ctx, h, r) ==
    IF stepName \notin DOMAIN w.Steps
    THEN MissingStep(stepName, "end", ev, ctx, h)
    ELSE StepCall(stepName, w.Steps[stepName], ev, ctx, h, r)

\* Output, were it to skip the test of NextStep.
Output_NoEndTest(ev, ctx) ==
    LET got == Get(ev, "output")
    IN  IF got.success THEN got.val ELSE Str("No output produced")

\* (wf *BaseWorkflow) Output(ev, ctx)
Output(ev, ctx) ==
    IF ev.NextStep = "end"
    THEN LET got == Get(ev, "output")
         IN  IF got.success THEN got.val ELSE Str("No output produced")
    ELSE Str("Not an output step")

\* --------------------------------------------------------------------- Run

\* The heap that holds, for every context c of made, a BaseContext built by
\* NewBaseContext from two maps of its own whose contents are made[c].Store
\* and made[c].State.
RECURSIVE HeapOver(_, _, _)
HeapOver(made, todo, h) ==
    IF todo = {}
    THEN h
    ELSE LET c == CHOOSE x \in todo : TRUE
             h1 == NewMap(NewMap(h, made[c].Store), made[c].State)
             n == Len(h1.map)
         IN  HeapOver(made, todo \ {c},
                      [h1 EXCEPT !.ctx = (c :> NewBaseContext(n - 1, n)) @@ @])

HeapOf(made) == HeapOver(made, DOMAIN made, [ctx |-> <<>>, map |-> <<>>])

\* The contents of the two maps of the context c.
CtxValue(h, c) == [Store |-> h.map[h.ctx[c].Store], State |-> h.map[GetState(h, c)]]

NoArgs == [none |-> TRUE]
NoCall == [op |-> "none"]

\* The calls of TakeStep that Run has made.
Takes == SelectSeq(trace, LAMBDA t : t.kind = "TakeStep")

Init ==
    /\ wf \in {NewBaseWorkflow(f, "wfctx", t) : f \in Names, t \in StepTables}
    /\ heap = HeapOf([c \in CtxIds |-> NewBaseContext(EmptyMap, EmptyMap)])
    /\ pc = "idle"
    /\ args = NoArgs
    /\ event = NilEvent
    /\ trace = <<>>
    /\ call = NoCall

\* RunCall, were the end callback called for the first event too.
RunCall_WithOnEnd ==
    /\ pc = "idle"
    /\ \E inputEvent \in InputEvents, context \in CtxIds, r \in StepResults :
         LET t == TakeStep(wf, wf.FirstStep, inputEvent, context, heap, r)
         IN  /\ args' = [inputEvent |-> inputEvent, context |-> context]
             /\ event' = t.event
             /\ heap' = t.heap
             /\ trace' = Append(trace, t.log)
    /\ pc' = "onEnd"
    /\ UNCHANGED <<wf, call>>

\* RunCall, were Run to check FirstStep against the reserved name and return
\* without a dispatch.
RunCall_Revalidate ==
    /\ pc = "idle"
    /\ \E inputEvent \in InputEvents, context \in CtxIds, r \in StepResults :
         LET t == TakeStep(wf, wf.FirstStep, inputEvent, context, heap, r)
         IN  /\ args' = [inputEvent |-> inputEvent, context |-> context]
             /\ IF wf.FirstStep = "end"
                THEN /\ pc' = "done"
                     /\ UNCHANGED <<event, heap, trace>>
                ELSE /\ pc' = "loop"
                     /\ event' = t.event
                     /\ heap' = t.heap
                     /\ trace' = <<t.log>>
    /\ UNCHANGED <<wf, call>>

\* RunCall, were the start callback called for the input event before the
\* first step runs.
RunCall_StartsWithInput ==
    /\ pc = "idle"
    /\ \E inputEvent \in InputEvents, context \in CtxIds, r \in StepResults :
         LET t == TakeStep(wf, wf.FirstStep, inputEvent, context, heap, r)
         IN  /\ args' = [inputEvent |-> inputEvent, context |-> context]
             /\ event' = t.event
             /\ heap' = t.heap
             /\ trace' = <<[kind |-> "onStart", ev |-> inputEvent], t.log>>
    /\ pc' = "loop"
    /\ UNCHANGED <<wf, call>>

\* Run is called: event := wf.TakeStep(wf.FirstStep, inputEvent, context)
RunCall ==
    /\ pc = "idle"
    /\ \E inputEvent \in InputEvents, context \in CtxIds,
          r \in StepResultsFor(wf, wf.FirstStep) :
         LET t == TakeStep(wf, wf.FirstStep, inputEvent, context, heap, r)
         IN  /\ args' = [inputEvent |-> inputEvent, context |-> context]
             /\ event' = t.event
             /\ heap' = t.heap
             /\ trace' = Append(trace, t.log)
    /\ pc' = "loop"
    /\ UNCHANGED <<wf, call>>

\* RunOnStart, were the test for "end" missing.
RunOnStart_NoEndTest ==
    /\ pc = "loop"
    /\ trace' = Append(trace, [kind |-> "onStart", ev |-> event])
    /\ pc' = IF event = NilEvent THEN "panic" ELSE "dispatch"
    /\ UNCHANGED <<wf, heap, args, event, call>>

\* RunOnStart, were "end" terminal only when no step is registered under it.
RunOnStart_EndIfUnregistered ==
    /\ pc = "loop"
    /\ trace' = Append(trace, [kind |-> "onStart", ev |-> event])
    /\ pc' = IF event = NilEvent THEN "panic"
             ELSE IF event.NextStep = "end" /\ "end" \notin DOMAIN wf.Steps
                  THEN "output" ELSE "dispatch"
    /\ UNCHANGED <<wf, heap, args, event, call>>

\* onEventStartCallBack(event), then the test event.NextStep == "end", which
\* dereferences event.
RunOnStart ==
    /\ pc = "loop"
    /\ trace' = Append(trace, [kind |-> "onStart", ev |-> event])
    /\ pc' = IF event = NilEvent THEN "panic"
             ELSE IF event.NextStep = "end" THEN "output" ELSE "dispatch"
    /\ UNCHANGED <<wf, heap, args, event, call>>

\* RunOutput, were the end callback called for the terminal event too.
RunOutput_WithOnEnd ==
    /\ pc = "output"
    /\ LET output == Output(event, args.context)
       IN  trace' = trace \o <<[kind |-> "onEnd", ev |-> event],
                                [kind |-> "onOutput", out |-> output]>>
    /\ pc' = "done"
    /\ UNCHANGED <<wf, heap, args, event, call>>

\* RunOutput, were the output callback called before the output is known to
\* be final: once here and once more on the way out.
RunOutput_Twice ==
    /\ pc = "output"
    /\ LET output == Output(event, args.context)
       IN  trace' = trace \o <<[kind |-> "onOutput", out |-> output],
                                [kind |-> "onOutput", out |-> output]>>
    /\ pc' = "done"
    /\ UNCHANGED <<wf, heap, args, event, call>>

\* output := wf.Output(event, context); onOutputCallBack(output); break
RunOutput ==
    /\ pc = "output"
    /\ LET output == Output(event, args.context)
       IN  trace' = Append(trace, [kind |-> "onOutput", out |-> output])
    /\ pc' = "done"
    /\ UNCHANGED <<wf, heap, args, event, call>>

\* RunTakeStep, were Run to return when a step comes up a second time.
RunTakeStep_CycleDetect ==
    /\ pc = "dispatch"
    /\ Len(Takes) < MaxSteps
    /\ IF \E i \in DOMAIN Takes : Takes[i].name = event.NextStep
       THEN /\ pc' = "done"
            /\ UNCHANGED <<event, heap, trace>>
       ELSE /\ \E r \in StepResults :
                 LET t == TakeStep(wf, event.NextStep, event, args.context, heap, r)
                 IN  /\ event' = t.event
                     /\ heap' = t.heap
                     /\ trace' = Append(trace, t.log)
            /\ pc' = "onEnd"
    /\ UNCHANGED <<wf, args, call>>

\* RunTakeStep, were the end callback called for the event just processed,
\* before the next one starts.
RunTakeStep_EndOfProcessed ==
    /\ pc = "dispatch"
    /\ Len(Takes) < MaxSteps
    /\ \E r \in StepResults :
         LET t == TakeStep(wf, event.NextStep, event, args.context, heap, r)
         IN  /\ event' = t.event
             /\ heap' = t.heap
             /\ trace' = trace \o <<t.log, [kind |-> "onEnd", ev |-> event]>>
    /\ pc' = "loop"
    /\ UNCHANGED <<wf, args, call>>

\* RunTakeStep, were the steps of the loop given the workflow's own Context.
RunTakeStep_DefaultContext ==
    /\ pc = "dispatch"
    /\ Len(Takes) < MaxSteps
    /\ \E r \in StepResults :
         LET t == TakeStep(wf, event.NextStep, event, wf.Context, heap, r)
         IN  /\ event' = t.event
             /\ heap' = t.heap
             /\ trace' = Append(trace, t.log)
    /\ pc' = "onEnd"
    /\ UNCHANGED <<wf, args, call>>

\* event = wf.TakeStep(event.NextStep, event, context)
RunTakeStep ==
    /\ pc = "dispatch"
    /\ Len(Takes) < MaxSteps
    /\ \E r \in StepResultsFor(wf, event.NextStep) :
         LET t == TakeStep(wf, event.NextStep, event, args.context, heap, r)
         IN  /\ event' = t.event
             /\ heap' = t.heap
             /\ trace' = Append(trace, t.log)
    /\ pc' = "onEnd"
    /\ UNCHANGED <<wf, args, call>>

\* RunOnEnd, were the callback not called.
RunOnEnd_Skip ==
    /\ pc = "onEnd"
    /\ pc' = "loop"
    /\ UNCHANGED <<wf, heap, args, event, trace, call>>

\* onEventEndCallBack(event)
RunOnEnd ==
    /\ pc = "onEnd"
    /\ trace' = Append(trace, [kind |-> "onEnd", ev |-> event])
    /\ pc' = "loop"
    /\ UNCHANGED <<wf, heap, args, event, call>>

Next == RunCall \/ RunOnStart \/ RunOutput \/ RunTakeStep \/ RunOnEnd

Spec == Init /\ [][Next]_vars

\* Run is sequential code on one goroutine: whatever statement is next is
\* executed, as long as the steps and the callbacks return.
FairSpec == Init /\ [][Next]_vars /\ WF_vars(Next)

\* ------------------------------------------------------------ direct calls

\* The events handed to Output.
OutputEvents == Events \cup InputEvents \cup {NewBaseEvent("end", [mock |-> Str("event")])}

\* The contents of the contexts a caller has built before a direct call.
Contexts ==
    { NewBaseContext(EmptyMap, EmptyMap), NewBaseContext([k |-> 2], [n |-> 2]) }

\* A constructed workflow and contexts in any state, before one direct call.
InitApi ==
    /\ wf \in {NewBaseWorkflow(f, "wfctx", t) : f \in Names, t \in StepTables}
    /\ heap \in {HeapOf(made) : made \in [CtxIds -> Contexts]}
    /\ pc = "idle"
    /\ args = NoArgs
    /\ event = NilEvent
    /\ trace = <<>>
    /\ call = NoCall

\* A caller calls wf.Validate().
CallValidate ==
    /\ pc = "idle"
    /\ call = NoCall
    /\ call' = [op |-> "Validate", ret |-> Validate(wf), wfBefore |-> wf, heapBefore |-> heap]
    /\ UNCHANGED <<wf, heap, pc, args, event, trace>>

\* A caller calls wf.TakeStep(stepName, ev, ctx).
CallTakeStep ==
    /\ pc = "idle"
    /\ call = NoCall
    /\ \E stepName \in Names, ev \in InputEvents, ctx \in CtxIds, r \in StepResults :
         LET t == TakeStep(wf, stepName, ev, ctx, heap, r)
         IN  /\ call' = [op |-> "TakeStep", name |-> stepName, ev |-> ev, ctx |-> ctx,
                         heapBefore |-> heap,
                         ret |-> t.event, log |-> t.log]
             /\ heap' = t.heap
    /\ UNCHANGED <<wf, pc, args, event, trace>>

\* A caller calls wf.Output(ev, ctx).
CallOutput ==
    /\ pc = "idle"
    /\ call = NoCall
    /\ \E ev \in OutputEvents, ctx \in CtxIds :
         call' = [op |-> "Output", ev |-> ev, ctx |-> ctx, heapBefore |-> heap,
                  ret |-> Output(ev, ctx)]
    /\ UNCHANGED <<wf, heap, pc, args, event, trace>>

NextApi == CallValidate \/ CallTakeStep \/ CallOutput

SpecApi == InitApi /\ [][NextApi]_vars

\* -------------------------------------------------- calls on one context

\* The keys and values a caller stores, and the map literals it writes.
CtxKeys == {"k", "j"}
CtxVals == {1, 2}
MapLiterals == {EmptyMap, [k |-> 1], [k |-> 2, j |-> 1]}

\* The context the caller builds and calls.
CtxUnderTest == "runctx"

\* The caller wrote two map literals and built
\* ctx := NewBaseContext(store, state) from them: from one each, in either
\* order, or from the same map twice.  args keeps what the constructor was
\* given and what the maps held then.
InitCtx ==
    /\ wf = NewBaseWorkflow("s1", "wfctx", FullTable)
    /\ \E a \in MapLiterals, b \in MapLiterals, store \in 1 .. 2, state \in 1 .. 2 :
          LET h == NewMap(NewMap([ctx |-> <<>>, map |-> <<>>], a), b)
          IN  /\ heap = [h EXCEPT !.ctx = (CtxUnderTest :> NewBaseContext(store, state))]
              /\ args = [store |-> store, state |-> state,
                         made |-> NewBaseContext(h.map[store], h.map[state])]
    /\ pc = "idle"
    /\ event = NilEvent
    /\ trace = <<>>
    /\ call = NoCall

\* The caller calls ctx.StoreValue(key, val).
CallStoreValue ==
    /\ Len(trace) < MaxOps
    /\ \E key \in CtxKeys, val \in CtxVals :
         /\ heap' = StoreValue(heap, CtxUnderTest, key, val)
         /\ call' = [op |-> "StoreValue", key |-> key, val |-> val, heapBefore |-> heap]
         /\ trace' = Append(trace, [kind |-> "StoreValue", key |-> key, val |-> val])
    /\ UNCHANGED <<wf, pc, args, event>>

\* The caller calls ctx.SetState(state) with a map it already holds.
CallSetState ==
    /\ Len(trace) < MaxOps
    /\ \E state \in DOMAIN heap.map :
         /\ heap' = SetState(heap, CtxUnderTest, state)
         /\ call' = [op |-> "SetState", state |-> state, content |-> heap.map[state],
                     heapBefore |-> heap]
         /\ trace' = Append(trace, [kind |-> "SetState", state |-> state])
    /\ UNCHANGED <<wf, pc, args, event>>

\* The caller calls ctx.SetState(map[string]any{...}) with a new map.
CallSetStateLiteral ==
    /\ Len(trace) < MaxOps
    /\ \E content \in MapLiterals :
         LET h1 == NewMap(heap, content)
             state == Len(h1.map)
         IN  /\ heap' = SetState(h1, CtxUnderTest, state)
             /\ call' = [op |-> "SetState", state |-> state, content |-> content,
                         heapBefore |-> heap]
             /\ trace' = Append(trace, [kind |-> "SetState", state |-> state])
    /\ UNCHANGED <<wf, pc, args, event>>

NextCtx == CallStoreValue \/ CallSetState \/ CallSetStateLiteral

SpecCtx == InitCtx /\ [][NextCtx]_vars

\* ------------------------------------------------------------- two Runs

\* Two goroutines call Run on one workflow.  One of them is running: pc, args,
\* event and trace are its position, arguments, local variable and history.
\* The other is suspended and call keeps the same four things of it.

\* The workflows the two goroutines share: counting steps under "s1" and,
\* in one of them, under "s2".
SharedWorkflows ==
    { NewBaseWorkflow("s1", "wfctx", [n \in D |-> "count"]) : D \in {{"s1"}, {"s1", "s2"}} }

\* What is kept of a suspended goroutine.
Suspended(p, a, e, t) == [op |-> "suspended", pc |-> p, args |-> a, event |-> e, trace |-> t]

InitTwo ==
    /\ wf \in SharedWorkflows
    /\ heap = HeapOf([c \in CtxIds |-> NewBaseContext(EmptyMap, EmptyMap)])
    /\ pc = "idle"
    /\ args = NoArgs
    /\ event = NilEvent
    /\ trace = <<>>
    /\ call = Suspended("idle", NoArgs, NilEvent, <<>>)

\* Switch, were the event of a run kept in the workflow, one for both
\* goroutines, and not in a local variable of Run.
Switch_SharedEvent ==
    /\ call.op = "suspended"
    /\ pc' = call.pc
    /\ args' = call.args
    /\ trace' = call.trace
    /\ call' = Suspended(pc, args, event, trace)
    /\ UNCHANGED <<wf, heap, event>>

\* The scheduler suspends the running goroutine and resumes the other one:
\* each goes on with its own arguments and local variable; the workflow and
\* the contexts are the ones both see.
Switch ==
    /\ call.op = "suspended"
    /\ pc' = call.pc
    /\ args' = call.args
    /\ event' = call.event
    /\ trace' = call.trace
    /\ call' = Suspended(pc, args, event, trace)
    /\ UNCHANGED <<wf, heap>>

NextTwo == Next \/ Switch

SpecTwo == InitTwo /\ [][NextTwo]_vars

\* A caller that may call wf.Validate() before wf.Run(...), and calls Run
\* whatever Validate answered.
NextValidated == CallValidate \/ Next

SpecValidated == Init /\ [][NextValidated]_vars

\* ------------------------------------------------------------ observations

\* The calls of each callback that Run has made, in order.
Starts == SelectSeq(trace, LAMBDA t : t.kind = "onStart")
Ends == SelectSeq(trace, LAMBDA t : t.kind = "onEnd")
Outputs == SelectSeq(trace, LAMBDA t : t.kind = "onOutput")

\* e is a terminal event.
IsTerminal(e) == e # NilEvent /\ e.NextStep = "end"

\* s is a prefix of t.
IsPrefix(s, t) == Len(s) <= Len(t) /\ SubSeq(t, 1, Len(s)) = s

\* The string msg names the step name.
NamesStep(msg, name) == \E i \in DOMAIN msg : msg[i] = name

\* The first dispatch of the run found a step, which returned a terminal event
\* whose payload holds an output.
FirstStepEnds ==
    /\ Len(Takes) >= 1
    /\ Takes[1].found
    /\ IsTerminal(Takes[1].ret)
    /\ "output" \in DOMAIN Takes[1].ret.Data

\* ------------------------------------------------------------------ claims

\* C1: when FirstStep names a step that returns an event with NextStep = "end"
\* and payload {"output": v}, Run calls onStart exactly once, with that event,
\* onOutput exactly once, with v, and onEnd never: no more than that while it
\* runs, and exactly that once it has returned.
C1_SingleStepRun ==
    FirstStepEnds =>
        /\ Ends = <<>>
        /\ IsPrefix(Starts, <<[kind |-> "onStart", ev |-> Takes[1].ret]>>)
        /\ IsPrefix(Outputs, <<[kind |-> "onOutput", out |-> Takes[1].ret.Data["output"]]>>)
        /\ Len(Takes) = 1
        /\ pc = "done" => Len(Starts) = 1 /\ Len(Outputs) = 1

\* A single-step run has returned, for an input event that itself names "end".
C1_Witness ==
    /\ pc = "done"
    /\ FirstStepEnds
    /\ args.inputEvent.NextStep = "end"
    /\ Outputs[1].out = Str("hello world")

\* Every dispatch of the run found a step.
AllStepsExist == \A i \in DOMAIN Takes : Takes[i].found

\* The dispatches follow the chain: the first is FirstStep, each later one is
\* the step named by the event the one before returned.
FollowsChain ==
    \A i \in DOMAIN Takes :
        Takes[i].name = IF i = 1 THEN wf.FirstStep ELSE Takes[i - 1].ret.NextStep

\* C2: a run over a chain of n >= 1 existing steps s1 -> ... -> sn -> "end"
\* dispatches exactly the n steps of the chain and, when it returns, has called
\* onStart n times and onEnd n - 1 times.
C2_ChainCounts ==
    (pc = "done" /\ AllStepsExist) =>
        /\ Len(Takes) >= 1
        /\ FollowsChain
        /\ Len(Starts) = Len(Takes)
        /\ Len(Ends) = Len(Takes) - 1
        /\ \A i \in DOMAIN Starts : Starts[i].ev = Takes[i].ret

\* The two-step chain has returned: onStart twice, onEnd once.
C2_Witness ==
    /\ pc = "done"
    /\ AllStepsExist
    /\ Len(Takes) = 2
    /\ Takes[1].name # Takes[2].name
    /\ Len(Starts) = 2
    /\ Len(Ends) = 1

\* C3, as stated: no event passed to onEnd has NextStep = "end".
C3_Original == \A i \in DOMAIN Ends : ~IsTerminal(Ends[i].ev)

\* C3, amended: onEnd is never called for the event of the first dispatch and
\* never after onStart received a terminal event; it is called only right after
\* a dispatch made for an intermediate event (one whose NextStep is not "end"),
\* with the event that dispatch produced, whatever its NextStep.
C3_OnEndOnlyAfterLoopDispatch ==
    \A j \in DOMAIN trace :
        trace[j].kind = "onEnd" =>
            /\ j > 2
            /\ trace[j - 1].kind = "TakeStep"
            /\ trace[j - 1].ret = trace[j].ev
            /\ trace[j - 1].ev # NilEvent
            /\ trace[j - 1].ev.NextStep # "end"
            /\ trace[j - 1].name = trace[j - 1].ev.NextStep
            /\ \A k \in 1 .. (j - 1) :
                   trace[k].kind = "onStart" => ~IsTerminal(trace[k].ev)

\* onEnd received the terminal event of a two-step run that has returned.
C3_Witness ==
    /\ pc = "done"
    /\ Len(Ends) = 1
    /\ IsTerminal(Ends[1].ev)
    /\ Ends[1].ev = Starts[2].ev

\* The first terminal event the run produced.
FirstTerminal ==
    LET i == CHOOSE k \in DOMAIN Takes :
                 /\ IsTerminal(Takes[k].ret)
                 /\ \A m \in 1 .. (k - 1) : ~IsTerminal(Takes[m].ret)
    IN  Takes[i].ret

\* C4: onOutput is called at most once and nothing follows it; in a run that
\* has returned it was called exactly once, with Output(e, context) of the
\* first terminal event e the run produced.
C4_OutputOnceAndLast ==
    /\ Len(Outputs) <= 1
    /\ \A j \in DOMAIN trace : trace[j].kind = "onOutput" => j = Len(trace) /\ pc = "done"
    /\ pc = "done" =>
        /\ Len(Outputs) = 1
        /\ \E k \in DOMAIN Takes : IsTerminal(Takes[k].ret)
        /\ Outputs[1].out = Output(FirstTerminal, args.context)
        /\ FirstTerminal = Takes[Len(Takes)].ret

\* A run of several steps has returned an output read from the payload.
C4_Witness ==
    /\ pc = "done"
    /\ Len(Takes) = MaxSteps
    /\ AllStepsExist
    /\ Outputs[1].out = Str("hello world")

\* C6: a dispatch in Run of a name that is not in the step table calls no step
\* function and is the last dispatch of the run: what follows it is only the
\* callbacks for the synthesized terminal event, ending with onOutput of the
\* message that names the missing step.
C6_MissingStepEndsRun ==
    \A j \in DOMAIN trace :
        (trace[j].kind = "TakeStep" /\ trace[j].name \notin DOMAIN wf.Steps) =>
            LET msg == Sprintf(trace[j].name)
                e == NewBaseEvent("end", [output |-> msg])
                rest == <<[kind |-> "onStart", ev |-> e], [kind |-> "onOutput", out |-> msg]>>
                after == SubSeq(trace, j + 1, Len(trace))
            IN  /\ ~trace[j].found
                /\ trace[j].ret = e
                /\ NamesStep(msg, trace[j].name)
                /\ IsPrefix(after, IF j = 1 THEN rest ELSE <<[kind |-> "onEnd", ev |-> e]>> \o rest)
                /\ pc \in {"loop", "onEnd", "output", "done"}
                /\ pc = "done" => trace[Len(trace)] = [kind |-> "onOutput", out |-> msg]

\* A run whose second dispatch named a missing step has returned.
C6_Witness ==
    /\ pc = "done"
    /\ Len(Takes) = 2
    /\ Takes[1].found
    /\ ~Takes[2].found
    /\ Outputs[1].out = Sprintf(Takes[2].name)

\* C9, as stated: Run never reaches a crash.
C9_RunNeverPanics == pc # "panic"

\* What decides where a run goes next is a terminal event or a dispatch that
\* is bound to produce one.
RunMustEnd ==
    \/ pc \in {"loop", "onEnd"} /\ IsTerminal(event)
    \/ pc = "output"
    \/ pc = "dispatch" /\ event.NextStep \notin DOMAIN wf.Steps /\ Len(Takes) < MaxSteps
    \/ pc = "idle" /\ wf.FirstStep \notin DOMAIN wf.Steps

\* The dispatches are exactly those of the path: each name is the one the
\* path names, and a step function ran exactly for the names in the table.
ExactlyThePath ==
    /\ FollowsChain
    /\ \A i \in DOMAIN Takes :
           /\ Takes[i].found <=> Takes[i].name \in DOMAIN wf.Steps
           /\ Takes[i].found => Takes[i].fn = wf.Steps[Takes[i].name]

\* C10: once the path from FirstStep has produced an event with NextStep = "end",
\* or names a step that is missing, Run eventually calls onOutput and returns;
\* and a run that returned has dispatched exactly the steps of the path.
C10_RunsToCompletion ==
    /\ RunMustEnd ~> (pc = "done" /\ Len(Outputs) = 1)
    /\ [](pc = "done" => ExactlyThePath)

\* A run that started at a missing FirstStep has returned.
C10_Witness ==
    /\ pc = "done"
    /\ Len(Takes) = 1
    /\ ~Takes[1].found
    /\ wf.FirstStep = "end"

\* C5: TakeStep(name, ev, ctx) with name absent from the step table calls no
\* step function, leaves ev and ctx as they were and returns a new event with
\* NextStep = "end" whose "output" is a message naming name; with name present
\* it calls exactly the step registered under name, with (ev, ctx), and returns
\* what the step returned.
C5_TakeStep ==
    call.op = "TakeStep" =>
        IF call.name \notin DOMAIN wf.Steps
        THEN /\ ~call.log.found
             /\ heap = call.heapBefore
             /\ call.log.ev = call.ev
             /\ call.ret # NilEvent
             /\ call.ret.NextStep = "end"
             /\ "output" \in DOMAIN call.ret.Data
             /\ NamesStep(call.ret.Data["output"], call.name)
        ELSE /\ call.log.found
             /\ call.log.fn = wf.Steps[call.name]
             /\ call.log.ev = call.ev
             /\ call.log.ctx = call.ctx
             /\ call.ret = call.log.ret
             /\ \A c \in CtxIds \ {call.ctx} :
                    /\ heap.ctx[c] = call.heapBefore.ctx[c]
                    /\ CtxValue(heap, c) = CtxValue(call.heapBefore, c)

\* TakeStep was called for a missing name on a workflow whose FirstStep exists.
C5_Witness ==
    /\ call.op = "TakeStep"
    /\ call.name \notin DOMAIN wf.Steps
    /\ wf.FirstStep \in DOMAIN wf.Steps
    /\ wf.Steps[wf.FirstStep] = "f2"
    /\ CtxValue(heap, call.ctx) # NewBaseContext(EmptyMap, EmptyMap)

\* C7: Validate returns (false, an error) exactly when "end" is a key of the
\* step table, and (true, nil) otherwise, whatever FirstStep is; it leaves the
\* workflow and the contexts as they were.
C7_Validate ==
    call.op = "Validate" =>
        /\ call.ret = IF "end" \in DOMAIN wf.Steps
                      THEN [ok |-> FALSE, err |-> call.ret.err]
                      ELSE [ok |-> TRUE, err |-> NilError]
        /\ ~call.ret.ok => call.ret.err # NilError
        /\ wf = call.wfBefore
        /\ heap = call.heapBefore

\* Validate accepted a workflow whose FirstStep is "end" and is no key.
C7_Witness ==
    /\ call.op = "Validate"
    /\ wf.FirstStep = "end"
    /\ "end" \notin DOMAIN wf.Steps
    /\ wf.Steps # EmptyMap
    /\ call.ret.ok

\* C8: Output(ev, ctx) is the payload's "output" when ev.NextStep = "end" and
\* the key is present, "No output produced" when ev.NextStep = "end" and the
\* key is absent, and "Not an output step", never the payload's "output", when
\* ev.NextStep # "end"; it leaves the contexts as they were.
C8_Output ==
    call.op = "Output" =>
        /\ (call.ev.NextStep = "end" /\ "output" \in DOMAIN call.ev.Data)
               => call.ret = call.ev.Data["output"]
        /\ (call.ev.NextStep = "end" /\ "output" \notin DOMAIN call.ev.Data)
               => call.ret = Str("No output produced")
        /\ call.ev.NextStep # "end" =>
               /\ call.ret = Str("Not an output step")
               /\ "output" \in DOMAIN call.ev.Data => call.ret # call.ev.Data["output"]
        /\ heap = call.heapBefore

\* Output was called on a non-terminal event that carries an "output".
C8_Witness ==
    /\ call.op = "Output"
    /\ call.ev.NextStep # "end"
    /\ "output" \in DOMAIN call.ev.Data
    /\ call.ret = Str("Not an output step")

\* Every dispatch so far found a step, which returned an event that names a
\* further step.
NoEndYet ==
    \A i \in DOMAIN Takes :
        Takes[i].found /\ Takes[i].ret # NilEvent /\ Takes[i].ret.NextStep # "end"

\* C11: as long as the steps named exist and none produces NextStep = "end",
\* Run has not called onOutput and has not returned, whatever number of
\* dispatches it has made and whether or not a step comes up again; nothing
\* but the bound of the model keeps it from going on, and onStart and onEnd
\* have been called for every event produced so far (onEnd for all but the
\* first).
C11_CycleNeverReturns ==
    (pc # "idle" /\ NoEndYet) =>
        /\ Outputs = <<>>
        /\ pc \in {"loop", "dispatch", "onEnd"}
        /\ Len(Ends) = Len(Takes) - (IF pc = "onEnd" THEN 2 ELSE 1)
        /\ Len(Starts) = Len(Takes) - (IF pc = "dispatch" THEN 0 ELSE 1)
        /\ ENABLED Next \/ (pc = "dispatch" /\ Len(Takes) = MaxSteps)

\* A run has gone round the cycle s1 -> s1 up to the bound of the model, with
\* the same event every time.
C11_Witness ==
    /\ pc = "dispatch"
    /\ NoEndYet
    /\ Len(Takes) = MaxSteps
    /\ Len(Starts) = MaxSteps
    /\ \A i \in DOMAIN Takes : Takes[i].name = "s1" /\ Takes[i].ret = Takes[1].ret

\* The kind of the j-th call of a run that has made n calls: the first
\* dispatch and its onStart, then rounds of dispatch, onEnd, onStart, and
\* onOutput in the place of a dispatch.
KindAt(j) ==
    IF j = 1 THEN {"TakeStep"}
    ELSE IF j = 2 THEN {"onStart"}
    ELSE IF j % 3 = 0 THEN {"TakeStep", "onOutput"}
    ELSE IF j % 3 = 1 THEN {"onEnd"}
    ELSE {"onStart"}

\* C19: the calls of a run are the first dispatch, onStart(e1), then rounds of
\* one dispatch, onEnd(e) and onStart(e) for the event e the dispatch
\* produced, and at the end onOutput; the events passed to onEnd are the
\* events produced by every dispatch but the first.
C19_CallbackProtocol ==
    /\ \A j \in DOMAIN trace :
        /\ trace[j].kind \in KindAt(j)
        /\ trace[j].kind = "onOutput" => j = Len(trace)
        /\ trace[j].kind = "onEnd" =>
               trace[j - 1].kind = "TakeStep" /\ trace[j].ev = trace[j - 1].ret
        /\ trace[j].kind = "onStart" =>
               trace[j].ev = IF j = 2 THEN trace[1].ret ELSE trace[j - 1].ev
        /\ (trace[j].kind = "TakeStep" /\ j > 1) => trace[j].ev = trace[j - 1].ev
    /\ pc = "done" =>
        /\ trace[Len(trace)].kind = "onOutput"
        /\ Len(Ends) = Len(Takes) - 1
        /\ \A i \in DOMAIN Ends : Ends[i].ev = Takes[i + 1].ret /\ Starts[i + 1].ev = Ends[i].ev

\* A run of MaxSteps dispatches has returned.
C19_Witness ==
    /\ pc = "done"
    /\ Len(Takes) = MaxSteps
    /\ Len(Ends) = MaxSteps - 1
    /\ Len(trace) = 3 * MaxSteps
    /\ Takes[1].ret # Takes[2].ret

\* C20: Run dispatches the name "end" only as its very first dispatch, and
\* only when FirstStep is "end": a step registered under "end" is never
\* called for the NextStep of a produced event.
C20_EndOnlyAsFirstStep ==
    \A i \in DOMAIN Takes :
        Takes[i].name = "end" => i = 1 /\ wf.FirstStep = "end"

\* A run that began with the step registered under "end" went on to another
\* step and returned on an event that names "end".
C20_Witness ==
    /\ pc = "done"
    /\ Len(Takes) = 2
    /\ Takes[1].name = "end"
    /\ Takes[1].found
    /\ Takes[2].found
    /\ ~Validate(wf).ok

\* The dispatches among the first n of the run in which a step function made
\* a call of the given kind on its context.
Writers(n, kind) ==
    {i \in 1 .. n : Takes[i].found /\ Takes[i].op.kind = kind}

\* The last element of a non-empty set of numbers.
Latest(S) == CHOOSE i \in S : \A k \in S : k <= i

\* What GetValue("k") and GetState() give on the context of the run after its
\* first n dispatches, were the steps' calls the only writes and all made on
\* that context, which was built from empty maps.
ValueAfter(n) ==
    LET W == Writers(n, "StoreValue")
    IN  IF W = {} THEN [val |-> 0, success |-> FALSE]
        ELSE [val |-> Takes[Latest(W)].op.val, success |-> TRUE]
StateAfter(n) ==
    LET W == Writers(n, "SetState")
    IN  IF W = {} THEN EmptyMap ELSE Takes[Latest(W)].op.state

\* C12: every step of a Run is given the context passed to Run, so what a step
\* reads with GetValue and GetState is what the latest StoreValue and SetState
\* of the earlier steps of the run wrote (the context as Run received it, if
\* none did); the engine writes to no context: the context of the run holds
\* what its steps wrote and every other context, the workflow's own included,
\* is as it was.
C12_SharedContext ==
    pc # "idle" =>
        /\ \A i \in DOMAIN Takes :
            /\ Takes[i].ctx = args.context
            /\ Takes[i].found =>
                /\ Takes[i].seen.value = ValueAfter(i - 1)
                /\ Takes[i].seen.state = StateAfter(i - 1)
        /\ GetValue(heap, args.context, "k") = ValueAfter(Len(Takes))
        /\ heap.map[GetState(heap, args.context)] = StateAfter(Len(Takes))
        /\ \A c \in CtxIds \ {args.context} :
            /\ CtxValue(heap, c) = NewBaseContext(EmptyMap, EmptyMap)
            /\ heap.ctx[c] = HeapOf([x \in CtxIds |-> NewBaseContext(EmptyMap, EmptyMap)]).ctx[c]

\* In a run on a context of its own, the third step read the value the second
\* step had stored over the first step's, and the state the first had set.
C12_Witness ==
    /\ pc = "done"
    /\ args.context # wf.Context
    /\ Len(Takes) = 3
    /\ AllStepsExist
    /\ Takes[1].op.kind = "SetState"
    /\ Takes[2].op.kind = "StoreValue"
    /\ Takes[3].op.kind = "StoreValue"
    /\ Takes[3].seen = [value |-> [val |-> 1, success |-> TRUE], state |-> [n |-> 1]]
    /\ GetValue(heap, args.context, "k").val = 2

\* The dispatches of the run are those of the path and each is given the
\* event before it: the first is FirstStep with the caller's input event,
\* every later one is the step named by the event the one before returned,
\* with that event; the step function called is the one registered under the
\* name.
DispatchOrder ==
    /\ ExactlyThePath
    /\ \A i \in DOMAIN Takes :
           Takes[i].ev = IF i = 1 THEN args.inputEvent ELSE Takes[i - 1].ret

\* The calls of onStart and onEnd.
EventCallbacks == {j \in DOMAIN trace : trace[j].kind \in {"onStart", "onEnd"}}

DispatchBefore(j) ==
    Latest({k \in 1 .. (j - 1) : trace[k].kind = "TakeStep"})

DispatchesReservedFirst ==
    pc # "idle" =>
        /\ Len(Takes) >= 1
        /\ Takes[1].name = "end"
        /\ Takes[1].ev = args.inputEvent
        /\ Takes[1].found <=> "end" \in DOMAIN wf.Steps

\* C17, as stated: Validate reports failure for a workflow whose FirstStep is
\* "end", and Run still dispatches FirstStep first.
C17_Original ==
    wf.FirstStep = "end" =>
        /\ call.op = "Validate" => ~call.ret.ok
        /\ DispatchesReservedFirst

\* C17, amended: Validate reports failure for a workflow whose FirstStep is
\* "end" exactly when "end" is also a key of Steps, and accepts it otherwise;
\* validated or not, accepted or not, Run dispatches FirstStep first.
C17_ReservedFirstStep ==
    wf.FirstStep = "end" =>
        /\ call.op = "Validate" =>
               (call.ret.ok <=> "end" \notin DOMAIN wf.Steps)
        /\ DispatchesReservedFirst

\* Validate accepted a workflow whose FirstStep is "end"; Run dispatched
\* "end", found no such step and returned the message about it.
C17_Witness ==
    /\ wf.FirstStep = "end"
    /\ wf.Steps # EmptyMap
    /\ call.op = "Validate"
    /\ call.ret.ok
    /\ pc = "done"
    /\ Takes[1].name = "end"
    /\ ~Takes[1].found
    /\ Len(Outputs) = 1

\* The content of the map GetState() returns.
StateContent(h) == h.map[GetState(h, CtxUnderTest)]

\* C13: right after construction GetState() is the state map the constructor
\* was given, with what it held; right after SetState(s2), whatever calls came
\* before, GetState() is s2 and holds exactly what s2 held, so no key of the
\* previous state is left unless s2 has it.
C13_SetStateReplaces ==
    /\ trace = <<>> =>
        /\ GetState(heap, CtxUnderTest) = args.state
        /\ StateContent(heap) = args.made.State
    /\ call.op = "SetState" =>
        /\ GetState(heap, CtxUnderTest) = call.state
        /\ StateContent(heap) = call.content

\* After other calls, SetState was called with a map that lacks a key of the
\* state before it.
C13_Witness ==
    /\ call.op = "SetState"
    /\ Len(trace) >= 2
    /\ DOMAIN StateContent(call.heapBefore) \ DOMAIN call.content # {}
    /\ call.content # EmptyMap

\* The calls of StoreValue(k, ...) made so far.
StoresOf(k) ==
    {i \in DOMAIN trace : trace[i].kind = "StoreValue" /\ trace[i].key = k}

C15_IndependentNamespaces ==
    /\ call.op = "StoreValue" =>
        /\ GetState(heap, CtxUnderTest) = GetState(call.heapBefore, CtxUnderTest)
        /\ StateContent(heap) = StateContent(call.heapBefore)
    /\ call.op = "SetState" =>
        \A k \in CtxKeys :
            GetValue(heap, CtxUnderTest, k) = GetValue(call.heapBefore, CtxUnderTest, k)

\* What the step of a recorded dispatch did, as a step result.
ResultOf(take) ==
    [ret |-> take.ret,
     op |-> IF take.found THEN CHOOSE o \in CtxOps : o.kind = take.op.kind
            ELSE [kind |-> "none"]]

\* What Run calls from line 157 on when it runs alone with the event ev on the
\* context c in the heap h and its steps do rs, one after the other, up to
\* the point where it needs a step result more; acc is what it called before.
RECURSIVE RunAloneLoop(_, _, _, _, _, _)
RunAloneLoop(w, c, h, ev, rs, acc) ==
    LET started == Append(acc, [kind |-> "onStart", ev |-> ev])
    IN  IF ev = NilEvent THEN started
        ELSE IF ev.NextStep = "end"
        THEN Append(started, [kind |-> "onOutput", out |-> Output(ev, c)])
        ELSE IF rs = <<>> THEN started
        ELSE LET t == TakeStep(w, ev.NextStep, ev, c, h, Head(rs))
             IN  RunAloneLoop(w, c, t.heap, t.event, Tail(rs),
                              started \o <<t.log, [kind |-> "onEnd", ev |-> t.event]>>)

\* What w.Run(inputEvent, c, ...) calls when it runs alone on contexts built
\* from empty maps and its steps do rs.
RunAlone(w, inputEvent, c, rs) ==
    IF rs = <<>> THEN <<>>
    ELSE LET h == HeapOf([x \in CtxIds |-> NewBaseContext(EmptyMap, EmptyMap)])
             t == TakeStep(w, w.FirstStep, inputEvent, c, h, Head(rs))
         IN  RunAloneLoop(w, c, t.heap, t.event, Tail(rs), <<t.log>>)

\* The two runs have a context each.
OwnContexts == call.pc # "idle" /\ pc # "idle" => call.args.context # args.context

\* C18: of two Runs of one workflow interleaved in any way, each on a context
\* of its own, each calls the steps and the callbacks, with the arguments, the
\* step's view of the context and the output, that it calls when it runs alone
\* and its steps do the same; a returned run has called all of it.
C18_RunsIndependent ==
    pc # "idle" /\ OwnContexts =>
        LET alone == RunAlone(wf, args.inputEvent, args.context,
                              [i \in DOMAIN Takes |-> ResultOf(Takes[i])])
        IN  /\ IsPrefix(trace, alone)
            /\ pc = "done" => trace = alone

\* Both runs are under way on contexts of their own, each after two steps
\* that wrote to its context, the running one about to call onEnd and the
\* suspended one about to dispatch again.
C18_Witness ==
    /\ pc = "onEnd"
    /\ call.pc = "dispatch"
    /\ call.args.context # args.context
    /\ call.args.inputEvent # args.inputEvent
    /\ Len(Takes) = 2
    /\ Len(SelectSeq(call.trace, LAMBDA t : t.kind = "TakeStep")) = 2
    /\ \A c \in CtxIds : GetValue(heap, c, "k") = [val |-> 2, success |-> TRUE]

====
